---- MODULE Spec2Model ----
(***************************************************************************)
(* Phone address service: the validation / service / repository pipeline   *)
(* over a key-value store (Redis).                                         *)
(*                                                                         *)
(* Strings are sequences of one-character strings, so that str.strip(),    *)
(* the E.164 pattern and the key prefix are computed, not assumed.         *)
(* An optional value (Python's None / a value) is a sequence of length 0   *)
(* or 1.                                                                   *)
(***************************************************************************)
EXTENDS Integers, Sequences, FiniteSets, TLC

(***************************************************************************)
(* Bounds of the model                                                     *)
(***************************************************************************)
\* number of concurrently served requests (coroutines / workers)
NumProcs == 2
\* last value of the clock
MaxTime == 1

(***************************************************************************)
(* Program constants                                                       *)
(***************************************************************************)
PhoneMinLength == 1
PhoneMaxLength == 20
AddressMinLength == 1
AddressMaxLength == 500

\* self._key_prefix = "phone:"
key_prefix == <<"p", "h", "o", "n", "e", ":">>

(***************************************************************************)
(* Strings                                                                 *)
(***************************************************************************)
Whitespace == {" ", "\t", "\n", "\r", "\f"}
\* a decimal digit outside ASCII (ARABIC-INDIC DIGIT TWO), which \d matches in
\* a str pattern and [1-9] does not
ArabicIndicTwo == "U+0662"
AsciiDigits == {"0", "1", "2", "3", "4", "5", "6", "7", "8", "9"}
Digits == AsciiDigits \cup {ArabicIndicTwo}
NonZeroDigits == AsciiDigits \ {"0"}

None == <<>>
Some(v) == <<v>>

RECURSIVE LStrip(_)
LStrip(s) ==
    IF s = <<>> THEN s
    ELSE IF Head(s) \in Whitespace THEN LStrip(Tail(s)) ELSE s

RECURSIVE RStrip(_)
RStrip(s) ==
    IF s = <<>> THEN s
    ELSE IF s[Len(s)] \in Whitespace THEN RStrip(SubSeq(s, 1, Len(s) - 1)) ELSE s

\* str.strip()
Strip(s) == RStrip(LStrip(s))

(***************************************************************************)
(* Validation (models/schemas.py)                                          *)
(***************************************************************************)
\* the pattern with \d in the place of [1-9]
MatchesE164_any_first(phone) ==
    LET body == IF phone # <<>> /\ Head(phone) = "+" THEN Tail(phone) ELSE phone
    IN  /\ Len(body) >= 2
        /\ Len(body) <= 15
        /\ body[1] \in Digits
        /\ \A i \in 2..Len(body) : body[i] \in Digits

\* re.match(r'^\+?[1-9]\d{1,14}$', phone)
MatchesE164(phone) ==
    LET body == IF phone # <<>> /\ Head(phone) = "+" THEN Tail(phone) ELSE phone
    IN  /\ Len(body) >= 2
        /\ Len(body) <= 15
        /\ body[1] \in NonZeroDigits
        /\ \A i \in 2..Len(body) : body[i] \in Digits

\* Field(min_length=1, max_length=20) then the 'phone' field validator:
\* the stripped phone, or None when a ValueError is raised
validate_phone_format(v) ==
    IF Len(v) < PhoneMinLength \/ Len(v) > PhoneMaxLength THEN None
    ELSE IF MatchesE164(Strip(v)) THEN Some(Strip(v)) ELSE None

\* the address validator with the length bounds put on the stripped value
validate_address_strip_first(v) ==
    IF Len(Strip(v)) < AddressMinLength \/ Len(Strip(v)) > AddressMaxLength THEN None
    ELSE IF Strip(v) # <<>> THEN Some(Strip(v)) ELSE None

\* Field(min_length=1, max_length=500) then the 'address' field validator
validate_address(v) ==
    IF Len(v) < AddressMinLength \/ Len(v) > AddressMaxLength THEN None
    ELSE IF Strip(v) # <<>> THEN Some(Strip(v)) ELSE None

\* PhoneAddressRecord(phone=..., address=..., created_at=..., updated_at=...)
PhoneAddressRecord(phone, address, created_at, updated_at) ==
    IF validate_phone_format(phone) = None \/ validate_address(address) = None
    THEN None
    ELSE Some([phone      |-> validate_phone_format(phone)[1],
               address    |-> validate_address(address)[1],
               created_at |-> created_at,
               updated_at |-> updated_at])

\* CreatePhoneAddressRequest(phone=..., address=...)
CreatePhoneAddressRequest(phone, address) ==
    IF validate_phone_format(phone) = None \/ validate_address(address) = None
    THEN None
    ELSE Some([phone   |-> validate_phone_format(phone)[1],
               address |-> validate_address(address)[1]])

\* UpdateAddressRequest(address=...)
UpdateAddressRequest(address) ==
    IF validate_address(address) = None THEN None
    ELSE Some([address |-> validate_address(address)[1]])

(***************************************************************************)
(* Serialization of a record into the stored value and back                *)
(***************************************************************************)
\* datetime -> ISO-8601 text, and back
isoformat(t) == <<"iso", t>>
fromisoformat(s) == s[2]

\* record.model_dump_json()
model_dump_json(r) ==
    [phone      |-> r.phone,
     address    |-> r.address,
     created_at |-> isoformat(r.created_at),
     updated_at |-> isoformat(r.updated_at)]

\* A stored text is modelled by the members of the JSON object it spells; a
\* text that is not JSON has the one member `text`.
\* json.loads(data): None stands for json.JSONDecodeError
json_loads(data) == IF "text" \in DOMAIN data THEN None ELSE Some(data)

\* PhoneAddressRecord(**json.loads(data)): phone and address are required
\* fields and the validators run again on the stored fields; None stands for
\* pydantic's ValidationError
loads_record(data) ==
    IF ~ ({"phone", "address"} \subseteq DOMAIN data) THEN None
    ELSE PhoneAddressRecord(data.phone, data.address,
                            fromisoformat(data.created_at),
                            fromisoformat(data.updated_at))

\* self._make_key(phone)
make_key(phone) == key_prefix \o phone

(***************************************************************************)
(* Inputs                                                                  *)
(***************************************************************************)
Procs == 1..NumProcs
\* the one client of the sequential specification
Caller == 1

Phone12 == <<"+", "1", "2">>
Phone12Padded == <<" ", "+", "1", "2">>
Phone34 == <<"3", "4">>
PhoneBad == <<"0", "1">>
AddressA == <<"A">>
AddressBPadded == <<" ", "B", " ">>
AddressBlank == <<" ">>

SeqPhones == {Phone12, Phone12Padded, Phone34, PhoneBad}
SeqAddresses == {AddressA, AddressBPadded, AddressBlank}
ConcAddresses == {AddressA, AddressBPadded}

\* a record an earlier run of the service left in the store
SeedRecord == [phone |-> Phone12, address |-> AddressA, created_at |-> 0, updated_at |-> 0]
InitStores == {<<>>, [k \in {make_key(Phone12)} |-> model_dump_json(SeedRecord)]}

(***************************************************************************)
(* State                                                                   *)
(***************************************************************************)
VARIABLES
    store,            \* the key-value store: key -> stored value, present keys only
    now,              \* the clock read by datetime.utcnow()
    pc,               \* where each request is in its handler
    call,             \* the service call of each request, with its raw arguments
    record,           \* the record a create / update is about to write
    existing_record,  \* the record an update has read
    result,           \* what the call returned or raised
    prev,             \* the sequential caller's previous call and its result
    store_before,     \* the store when the observed calls began
    http_request,     \* the HTTP request being served
    correlation_id,   \* the context variable correlation_id of config/logging.py
    http_response,    \* the HTTP response sent last
    validation,       \* a field value on its way through its validator
    manager,          \* the fields of the global RedisConnectionManager
    pools,            \* every connection pool created so far: open or closed
    task,             \* the lifespan and the requests that call the manager
    log,              \* the lines the service and the repository logged for each call
    middleware_log    \* the lines the middlewares logged for the request

\* the HTTP boundary and the validator under test, which the service and the
\* repository never touch
connection == <<manager, pools, task>>
aside == <<http_request, correlation_id, http_response, validation, connection, middleware_log>>
vars == <<store, now, pc, call, record, existing_record, result, prev, store_before,
          http_request, correlation_id, http_response, validation, manager, pools, task,
          log, middleware_log>>
observer == <<prev, store_before, aside>>

NoCall == [op |-> "none", phone |-> <<>>, address |-> <<>>]
NoResult == [kind |-> "none", value |-> None, cause |-> "none"]
NoPrev == [call |-> NoCall, result |-> NoResult]
NoRequest == [method |-> "none", phone |-> <<>>, address |-> <<>>,
              header |-> None, preflight |-> FALSE]
NoResponse == [status_code |-> 0, header |-> None]
NoValidation == [field |-> "none", v |-> <<>>, state |-> "none", value |-> <<>>]

\* the lifespan of the application, next to the requests
Lifespan == 0
Tasks == {Lifespan} \cup Procs
\* RedisConnectionManager.__init__()
NewManager == [pool |-> None, client |-> None, is_connected |-> FALSE]
NoHealth == [status_code |-> 0, status |-> "none", redis_connected |-> FALSE]
NoTask == [op |-> "none", pc |-> "idle", on |-> None, ping |-> "none", result |-> None,
           response |-> NoHealth]

\* nothing is being served
Quiet ==
    /\ now = 0
    /\ pc = [p \in Procs |-> "idle"]
    /\ call = [p \in Procs |-> NoCall]
    /\ record = [p \in Procs |-> None]
    /\ existing_record = [p \in Procs |-> None]
    /\ result = [p \in Procs |-> NoResult]
    /\ prev = NoPrev
    /\ store_before = store
    /\ http_request = NoRequest
    /\ correlation_id = None
    /\ http_response = NoResponse
    /\ manager = NewManager
    /\ pools = <<>>
    /\ task = [t \in Tasks |-> NoTask]
    /\ log = [p \in Procs |-> <<>>]
    /\ middleware_log = <<>>

Init ==
    /\ store \in InitStores
    /\ Quiet
    /\ validation = NoValidation

\* correlation_id.get() or "N/A", of both formatters
format_correlation_id(context) ==
    IF context = None \/ context[1] = "" THEN "N/A" ELSE context[1]

\* a line of the log at the default level INFO, as StructuredFormatter writes
\* it: the logger, the level, the extra fields operation and phone, and the
\* correlation identifier of the context the line is logged in
log_line(logger, level, operation, phone, context) ==
    [logger |-> logger, level |-> level, operation |-> operation, phone |-> phone,
     correlation_id |-> format_correlation_id(context)]

\* the operation name the repository method of a service call logs
method_name(op) ==
    IF op = "get_address" THEN "get"
    ELSE IF op = "create_record" THEN "create"
    ELSE IF op = "update_address" THEN "update"
    ELSE IF op = "delete_record" THEN "delete"
    ELSE op

\* the phone a call logs: request.phone / record.phone for a create, the
\* phone argument for the others
logged_phone(p) ==
    IF call[p].op = "create_record" THEN record[p][1].phone ELSE call[p].phone

\* what the repository logs when the step the call is at ends the call with
\* `kind`: the logger calls of the method's body and of the except clauses
\* the exception passes, those of _get_redis_client() and of the get() inside
\* update() included; logger.debug lines are below the level
repository_log(p, kind) ==
    LET line(level) == log_line("repository", level, method_name(call[p].op),
                                Some(logged_phone(p)), correlation_id)
        client == IF pc[p] \in {"client", "get_client"}
                  THEN <<log_line("repository", "error", "get_client", None, correlation_id)>>
                  ELSE <<>>
        inner == IF call[p].op = "update_address" /\ pc[p] \in {"get_client", "redis_get"}
                 THEN <<log_line("repository", "error", "get", Some(logged_phone(p)),
                                 correlation_id)>>
                 ELSE <<>>
    IN  IF kind \in {"unavailable", "corrupted", "invalid_stored", "validation"}
        THEN client \o inner \o <<line("error")>>
        ELSE IF kind = "fault" THEN <<line("error"), line("error")>>
        ELSE IF kind = "duplicate" THEN <<line("warning")>>
        ELSE IF pc[p] = "redis_set" /\ kind = "record" THEN <<line("info")>>
        ELSE IF pc[p] = "redis_delete" /\ kind = "true" THEN <<line("info")>>
        ELSE <<>>

ServiceOps == {"get_address", "create_record", "update_address", "delete_record"}

\* a service that logs its failures only
service_log_failures_only(p, kind) ==
    IF call[p].op \notin ServiceOps \/ kind \in {"record", "absent", "true", "false"}
    THEN <<>>
    ELSE <<log_line("service", IF kind = "duplicate" THEN "warning" ELSE "error",
                    call[p].op, Some(logged_phone(p)), correlation_id)>>

\* what the service method logs once the repository has returned or raised:
\* logger.info for a result, logger.warning in except ValueError of
\* create_record, logger.error in except ConnectionError / except Exception
service_log(p, kind) ==
    IF call[p].op \notin ServiceOps
    THEN <<>>
    ELSE <<log_line("service",
                    IF kind \in {"record", "absent", "true", "false"} THEN "info"
                    ELSE IF kind = "duplicate" THEN "warning"
                    ELSE "error",
                    call[p].op, Some(logged_phone(p)), correlation_id)>>

\* the call returns `value` or raises the error `kind`; its locals are gone
Finish(p, kind, value) ==
    /\ pc' = [pc EXCEPT ![p] = "done"]
    /\ result' = [result EXCEPT ![p] = [kind |-> kind, value |-> value, cause |-> "none"]]
    /\ record' = [record EXCEPT ![p] = None]
    /\ existing_record' = [existing_record EXCEPT ![p] = None]
    /\ log' = [log EXCEPT ![p] = @ \o repository_log(p, kind) \o service_log(p, kind)]

\* the call ends in a validation error before any store call, having logged
\* `lines`
Reject(p, lines) ==
    /\ pc' = [pc EXCEPT ![p] = "done"]
    /\ result' = [result EXCEPT ![p] = [kind |-> "validation", value |-> None, cause |-> "none"]]
    /\ record' = [record EXCEPT ![p] = None]
    /\ existing_record' = [existing_record EXCEPT ![p] = None]
    /\ log' = [log EXCEPT ![p] = lines]

\* logger.warning("Invalid phone format in ... request") of get_address,
\* update_address and delete_record, in the context the call runs in
invalid_phone_log(op, phone) ==
    <<log_line("service", "warning", op, Some(phone), correlation_id')>>

\* the call raises the error `kind` because of `cause`: the exception of the
\* store client it was raised from (raise ... from e), or what the store replied
Raise(p, kind, cause) ==
    /\ pc' = [pc EXCEPT ![p] = "done"]
    /\ result' = [result EXCEPT ![p] = [kind |-> kind, value |-> None, cause |-> cause]]
    /\ record' = [record EXCEPT ![p] = None]
    /\ existing_record' = [existing_record EXCEPT ![p] = None]
    /\ log' = [log EXCEPT ![p] = @ \o repository_log(p, kind) \o service_log(p, kind)]

\* the handler goes on to its next await
Goto(p, label) ==
    /\ pc' = [pc EXCEPT ![p] = label]
    /\ UNCHANGED <<result, log>>

Keep(p) == UNCHANGED <<record, existing_record>>

\* the clock moves on
Tick ==
    /\ now < MaxTime
    /\ now' = now + 1
    /\ UNCHANGED <<store, pc, call, record, existing_record, result, log, observer>>

\* str(e) of the error a call of `op` raised
error_message(op, kind) ==
    IF kind = "unavailable" THEN "Redis service unavailable"
    ELSE IF kind = "fault"
    THEN IF op = "create_record" THEN "Failed to store record" ELSE "Failed to update record"
    ELSE IF kind = "duplicate" THEN "Phone number already exists"
    ELSE IF kind = "corrupted" THEN "Corrupted data in storage"
    ELSE IF kind = "invalid_stored" THEN "validation error for PhoneAddressRecord"
    ELSE IF kind = "validation" THEN "Invalid phone format"
    ELSE ""

(***************************************************************************)
(* Service entry points: everything up to the first await                  *)
(***************************************************************************)
TempAddress == <<"t", "e", "m", "p">>

\* PhoneAddressService.get_address(phone)
get_address(p, phone) ==
    /\ pc[p] = "idle"
    /\ call' = [call EXCEPT ![p] = [op |-> "get_address", phone |-> phone, address |-> <<>>]]
    /\ IF PhoneAddressRecord(phone, TempAddress, now, now) = None
       THEN Reject(p, invalid_phone_log("get_address", phone))
       ELSE Goto(p, "client") /\ Keep(p)
    /\ UNCHANGED <<store, now>>

\* create_record with the two timestamps taken in the other order
create_record_swapped(p, phone, address) ==
    /\ pc[p] = "idle"
    /\ call' = [call EXCEPT ![p] = [op |-> "create_record", phone |-> phone, address |-> address]]
    /\ LET request == CreatePhoneAddressRequest(phone, address)
       IN  IF request = None
           THEN /\ Reject(p, <<>>)
                /\ UNCHANGED now
           ELSE \E t \in {now, now + 1} :
                /\ t <= MaxTime
                /\ now' = t
                /\ record' = [record EXCEPT ![p] =
                       PhoneAddressRecord(request[1].phone, request[1].address, t, now)]
                /\ UNCHANGED existing_record
                /\ Goto(p, "client")
    /\ UNCHANGED store

\* PhoneAddressService.create_record(CreatePhoneAddressRequest(phone, address)):
\* created_at and updated_at are two reads of the clock
create_record(p, phone, address) ==
    /\ pc[p] = "idle"
    /\ call' = [call EXCEPT ![p] = [op |-> "create_record", phone |-> phone, address |-> address]]
    /\ LET request == CreatePhoneAddressRequest(phone, address)
       IN  IF request = None
           THEN /\ Reject(p, <<>>)
                /\ UNCHANGED now
           ELSE \E t \in {now, now + 1} :
                /\ t <= MaxTime
                /\ now' = t
                /\ record' = [record EXCEPT ![p] =
                       PhoneAddressRecord(request[1].phone, request[1].address, now, t)]
                /\ UNCHANGED existing_record
                /\ Goto(p, "client")
    /\ UNCHANGED store

\* PhoneAddressService.update_address(phone, UpdateAddressRequest(address))
update_address(p, phone, address) ==
    /\ pc[p] = "idle"
    /\ call' = [call EXCEPT ![p] = [op |-> "update_address", phone |-> phone, address |-> address]]
    /\ IF UpdateAddressRequest(address) = None
       THEN Reject(p, <<>>)
       ELSE IF PhoneAddressRecord(phone, TempAddress, now, now) = None
       THEN Reject(p, invalid_phone_log("update_address", phone))
       ELSE Goto(p, "client") /\ Keep(p)
    /\ UNCHANGED <<store, now>>

\* delete_record that hands the phone to the repository without validating it
delete_record_unvalidated(p, phone) ==
    /\ pc[p] = "idle"
    /\ call' = [call EXCEPT ![p] = [op |-> "delete_record", phone |-> phone, address |-> <<>>]]
    /\ Goto(p, "client") /\ Keep(p)
    /\ UNCHANGED <<store, now>>

\* PhoneAddressService.delete_record(phone)
delete_record(p, phone) ==
    /\ pc[p] = "idle"
    /\ call' = [call EXCEPT ![p] = [op |-> "delete_record", phone |-> phone, address |-> <<>>]]
    /\ IF PhoneAddressRecord(phone, TempAddress, now, now) = None
       THEN Reject(p, invalid_phone_log("delete_record", phone))
       ELSE Goto(p, "client") /\ Keep(p)
    /\ UNCHANGED <<store, now>>

\* RedisPhoneAddressRepository.exists(phone), called directly
exists(p, phone) ==
    /\ pc[p] = "idle"
    /\ call' = [call EXCEPT ![p] = [op |-> "exists", phone |-> phone, address |-> <<>>]]
    /\ Goto(p, "client") /\ Keep(p)
    /\ UNCHANGED <<store, now>>

(***************************************************************************)
(* The store's single-key commands, each atomic                            *)
(***************************************************************************)
\* SET key value
redis_set(s, key, value) ==
    [k \in DOMAIN s \cup {key} |-> IF k = key THEN value ELSE s[k]]

\* DEL key
redis_delete(s, key) == [k \in DOMAIN s \ {key} |-> s[k]]

\* except (ConnectionError, TimeoutError): the two exceptions of the store
\* client that mean the store could not be reached in time
StoreFailures == {"ConnectionError", "TimeoutError"}
\* what a store call can do: answer, or fail with one of them
CallOutcomes == {"ok"} \cup StoreFailures
\* a write can also be refused (a falsy acknowledgment), or be applied while
\* its reply is lost in a timeout
WriteOutcomes == {"ok", "nack", "reply_lost"} \cup StoreFailures
DeleteOutcomes == {"ok", "reply_lost"} \cup StoreFailures

\* the exception the store client raises for a failed outcome
raised(outcome) == IF outcome = "reply_lost" THEN "TimeoutError" ELSE outcome

(***************************************************************************)
(* Repository steps: one per await                                         *)
(***************************************************************************)
\* the key the repository method of this call works on
call_key(p) ==
    IF call[p].op = "create_record"
    THEN make_key(record[p][1].phone)
    ELSE make_key(call[p].phone)

\* _get_redis_client() whose failure makes exists() answer False
get_redis_client_reports_false(p) ==
    /\ pc[p] \in {"client", "get_client"}
    /\ \E outcome \in CallOutcomes :
         IF outcome \in StoreFailures
         THEN Raise(p, IF call[p].op = "exists" THEN "false" ELSE "unavailable", raised(outcome))
         ELSE /\ Goto(p, IF pc[p] = "get_client" \/ call[p].op = "get_address" THEN "redis_get"
                         ELSE IF call[p].op = "update_address" THEN "get_client"
                         ELSE IF call[p].op = "delete_record" THEN "redis_delete"
                         ELSE "redis_exists")
              /\ Keep(p)
    /\ UNCHANGED <<store, now, call, observer>>

\* RedisPhoneAddressRepository._get_redis_client(), at the start of each
\* repository method and again inside the get() that update() calls
get_redis_client(p) ==
    /\ pc[p] \in {"client", "get_client"}
    /\ \E outcome \in CallOutcomes :
         IF outcome \in StoreFailures
         THEN Raise(p, "unavailable", raised(outcome))
         ELSE /\ Goto(p, IF pc[p] = "get_client" \/ call[p].op = "get_address" THEN "redis_get"
                         ELSE IF call[p].op = "update_address" THEN "get_client"
                         ELSE IF call[p].op = "delete_record" THEN "redis_delete"
                         ELSE "redis_exists")
              /\ Keep(p)
    /\ UNCHANGED <<store, now, call, observer>>

\* get() whose caller update() goes on with a fresh record when the key is missing
repository_get_upsert(p) ==
    /\ pc[p] = "redis_get"
    /\ \E outcome \in CallOutcomes :
         IF outcome \in StoreFailures
         THEN Raise(p, "unavailable", raised(outcome))
         ELSE IF call_key(p) \notin DOMAIN store
         THEN IF call[p].op = "get_address"
              THEN Finish(p, "absent", None)
              ELSE /\ existing_record' = [existing_record EXCEPT ![p] =
                          PhoneAddressRecord(call[p].phone, TempAddress, now, now)]
                   /\ UNCHANGED record
                   /\ Goto(p, "build")
         ELSE IF json_loads(store[call_key(p)]) = None
         THEN Raise(p, "corrupted", "JSONDecodeError")
         ELSE LET loaded == loads_record(json_loads(store[call_key(p)])[1])
              IN  IF loaded = None
                  THEN Raise(p, "invalid_stored", "ValidationError")
                  ELSE IF call[p].op = "get_address"
                  THEN Finish(p, "record", loaded)
                  ELSE /\ existing_record' = [existing_record EXCEPT ![p] = loaded]
                       /\ UNCHANGED record
                       /\ Goto(p, "build")
    /\ UNCHANGED <<store, now, call, observer>>

\* get() on a client without socket timeout: a read that is not answered is
\* waited for without end
repository_get_no_timeout(p) ==
    /\ pc[p] = "redis_get"
    /\ \E outcome \in CallOutcomes :
         IF outcome = "TimeoutError"
         THEN Goto(p, "waiting") /\ Keep(p)
         ELSE IF outcome \in StoreFailures
         THEN Raise(p, "unavailable", raised(outcome))
         ELSE IF call_key(p) \notin DOMAIN store
         THEN Finish(p, "absent", None)
         ELSE IF json_loads(store[call_key(p)]) = None
         THEN Raise(p, "corrupted", "JSONDecodeError")
         ELSE LET loaded == loads_record(json_loads(store[call_key(p)])[1])
              IN  IF loaded = None
                  THEN Raise(p, "invalid_stored", "ValidationError")
                  ELSE IF call[p].op = "get_address"
                  THEN Finish(p, "record", loaded)
                  ELSE /\ existing_record' = [existing_record EXCEPT ![p] = loaded]
                       /\ UNCHANGED record
                       /\ Goto(p, "build")
    /\ UNCHANGED <<store, now, call, observer>>

\* RedisPhoneAddressRepository.get(): redis_client.get(key) and the parse of
\* the value, for get_address and for the read of update()
repository_get(p) ==
    /\ pc[p] = "redis_get"
    /\ \E outcome \in CallOutcomes :
         IF outcome \in StoreFailures
         THEN Raise(p, "unavailable", raised(outcome))
         ELSE IF call_key(p) \notin DOMAIN store
         THEN Finish(p, "absent", None)
         ELSE IF json_loads(store[call_key(p)]) = None
         THEN Raise(p, "corrupted", "JSONDecodeError")
         ELSE LET loaded == loads_record(json_loads(store[call_key(p)])[1])
              IN  IF loaded = None
                  THEN Raise(p, "invalid_stored", "ValidationError")
                  ELSE IF call[p].op = "get_address"
                  THEN Finish(p, "record", loaded)
                  ELSE /\ existing_record' = [existing_record EXCEPT ![p] = loaded]
                       /\ UNCHANGED record
                       /\ Goto(p, "build")
    /\ UNCHANGED <<store, now, call, observer>>

\* update() that stamps created_at anew instead of keeping the one it read
build_updated_record_fresh(p) ==
    /\ pc[p] = "build"
    /\ LET updated_record ==
               PhoneAddressRecord(call[p].phone,
                                  UpdateAddressRequest(call[p].address)[1].address,
                                  now,
                                  now)
       IN  IF updated_record = None
           THEN Finish(p, "validation", None)
           ELSE /\ record' = [record EXCEPT ![p] = updated_record]
                /\ UNCHANGED existing_record
                /\ Goto(p, "redis_set")
    /\ UNCHANGED <<store, now, call, observer>>

\* RedisPhoneAddressRepository.update(): updated_record = PhoneAddressRecord(
\*   phone, address, created_at=existing_record.created_at, updated_at=utcnow())
build_updated_record(p) ==
    /\ pc[p] = "build"
    /\ LET updated_record ==
               PhoneAddressRecord(call[p].phone,
                                  UpdateAddressRequest(call[p].address)[1].address,
                                  existing_record[p][1].created_at,
                                  now)
       IN  IF updated_record = None
           THEN Finish(p, "validation", None)
           ELSE /\ record' = [record EXCEPT ![p] = updated_record]
                /\ UNCHANGED existing_record
                /\ Goto(p, "redis_set")
    /\ UNCHANGED <<store, now, call, observer>>

\* create() that does not look at the answer of its duplicate check
repository_exists_unchecked(p) ==
    /\ pc[p] = "redis_exists"
    /\ \E outcome \in CallOutcomes :
         IF outcome \in StoreFailures
         THEN Raise(p, "unavailable", raised(outcome))
         ELSE IF call[p].op = "create_record"
         THEN Goto(p, "redis_set") /\ Keep(p)
         ELSE Finish(p, IF call_key(p) \in DOMAIN store THEN "true" ELSE "false", None)
    /\ UNCHANGED <<store, now, call, observer>>

\* create() that overwrites the record it finds before reporting the duplicate
repository_exists_overwrite(p) ==
    /\ pc[p] = "redis_exists"
    /\ \E outcome \in CallOutcomes :
         IF outcome \in StoreFailures
         THEN Raise(p, "unavailable", raised(outcome)) /\ UNCHANGED store
         ELSE IF call[p].op = "create_record"
         THEN IF call_key(p) \in DOMAIN store
              THEN /\ store' = redis_set(store, call_key(p), model_dump_json(record[p][1]))
                   /\ Finish(p, "duplicate", None)
              ELSE Goto(p, "redis_set") /\ Keep(p) /\ UNCHANGED store
         ELSE /\ Finish(p, IF call_key(p) \in DOMAIN store THEN "true" ELSE "false", None)
              /\ UNCHANGED store
    /\ UNCHANGED <<now, call, observer>>

\* redis_client.exists(key): the duplicate check of create(), and exists()
repository_exists(p) ==
    /\ pc[p] = "redis_exists"
    /\ \E outcome \in CallOutcomes :
         IF outcome \in StoreFailures
         THEN Raise(p, "unavailable", raised(outcome))
         ELSE IF call[p].op = "create_record"
         THEN IF call_key(p) \in DOMAIN store
              THEN Finish(p, "duplicate", None)
              ELSE Goto(p, "redis_set") /\ Keep(p)
         ELSE Finish(p, IF call_key(p) \in DOMAIN store THEN "true" ELSE "false", None)
    /\ UNCHANGED <<store, now, call, observer>>

\* a write that sets the address of a record already there and leaves the
\* rest of the stored value as it is
repository_set_address_only(p) ==
    /\ pc[p] = "redis_set"
    /\ \E outcome \in WriteOutcomes :
         /\ store' = IF outcome \in {"ok", "reply_lost"}
                     THEN IF call_key(p) \in DOMAIN store
                          THEN [store EXCEPT ![call_key(p)].address = record[p][1].address]
                          ELSE redis_set(store, call_key(p), model_dump_json(record[p][1]))
                     ELSE store
         /\ IF outcome = "ok" THEN Finish(p, "record", record[p])
            ELSE IF outcome = "nack" THEN Raise(p, "fault", "nack")
            ELSE Raise(p, "unavailable", raised(outcome))
    /\ UNCHANGED <<now, call, observer>>

\* a write whose refusal is reported as the store being unavailable
repository_set_refusal_unavailable(p) ==
    /\ pc[p] = "redis_set"
    /\ \E outcome \in WriteOutcomes :
         /\ store' = IF outcome \in {"ok", "reply_lost"}
                     THEN redis_set(store, call_key(p), model_dump_json(record[p][1]))
                     ELSE store
         /\ IF outcome = "ok" THEN Finish(p, "record", record[p])
            ELSE IF outcome = "nack" THEN Raise(p, "unavailable", "nack")
            ELSE Raise(p, "unavailable", raised(outcome))
    /\ UNCHANGED <<now, call, observer>>

\* success = await redis_client.set(key, record_json), of create() and update()
repository_set(p) ==
    /\ pc[p] = "redis_set"
    /\ \E outcome \in WriteOutcomes :
         /\ store' = IF outcome \in {"ok", "reply_lost"}
                     THEN redis_set(store, call_key(p), model_dump_json(record[p][1]))
                     ELSE store
         /\ IF outcome = "ok" THEN Finish(p, "record", record[p])
            ELSE IF outcome = "nack" THEN Raise(p, "fault", "nack")
            ELSE Raise(p, "unavailable", raised(outcome))
    /\ UNCHANGED <<now, call, observer>>

\* delete() that reports success whatever the count of removed keys
repository_delete_always_true(p) ==
    /\ pc[p] = "redis_delete"
    /\ \E outcome \in DeleteOutcomes :
         /\ store' = IF outcome \in {"ok", "reply_lost"}
                     THEN redis_delete(store, call_key(p))
                     ELSE store
         /\ IF outcome = "ok"
            THEN LET deleted_count == IF call_key(p) \in DOMAIN store THEN 1 ELSE 0
                 IN  Finish(p, IF deleted_count >= 0 THEN "true" ELSE "false", None)
            ELSE Raise(p, "unavailable", raised(outcome))
    /\ UNCHANGED <<now, call, observer>>

\* RedisPhoneAddressRepository.delete(): deleted_count = redis_client.delete(key)
repository_delete(p) ==
    /\ pc[p] = "redis_delete"
    /\ \E outcome \in DeleteOutcomes :
         /\ store' = IF outcome \in {"ok", "reply_lost"}
                     THEN redis_delete(store, call_key(p))
                     ELSE store
         /\ IF outcome = "ok"
            THEN LET deleted_count == IF call_key(p) \in DOMAIN store THEN 1 ELSE 0
                 IN  Finish(p, IF deleted_count > 0 THEN "true" ELSE "false", None)
            ELSE Raise(p, "unavailable", raised(outcome))
    /\ UNCHANGED <<now, call, observer>>

\* one step of the repository on behalf of request p
RepositoryStep(p) ==
    \/ get_redis_client(p)
    \/ repository_get(p)
    \/ build_updated_record(p)
    \/ repository_exists(p)
    \/ repository_set(p)
    \/ repository_delete(p)

(***************************************************************************)
(* Sequential specification: one caller, one call after the other          *)
(***************************************************************************)
\* the caller starts a call; the observer notes the store it starts from
SeqCall ==
    /\ UNCHANGED <<prev, aside>>
    /\ \/ \E phone \in SeqPhones : get_address(Caller, phone)
       \/ \E phone \in SeqPhones, address \in SeqAddresses : create_record(Caller, phone, address)
       \/ \E phone \in SeqPhones, address \in SeqAddresses : update_address(Caller, phone, address)
       \/ \E phone \in SeqPhones : delete_record(Caller, phone)
       \/ \E phone \in SeqPhones : exists(Caller, phone)
    /\ store_before' = store

\* the caller takes the result and is ready for its next call
SeqReturn ==
    /\ pc[Caller] = "done"
    /\ prev' = [call |-> call[Caller], result |-> result[Caller]]
    /\ pc' = [pc EXCEPT ![Caller] = "idle"]
    /\ call' = [call EXCEPT ![Caller] = NoCall]
    /\ result' = [result EXCEPT ![Caller] = NoResult]
    /\ log' = [log EXCEPT ![Caller] = <<>>]
    /\ UNCHANGED <<store, now, record, existing_record, store_before, aside>>

NextSeq ==
    \/ SeqCall
    \/ RepositoryStep(Caller)
    \/ SeqReturn
    \/ Tick

SpecSeq == Init /\ [][NextSeq]_vars

(***************************************************************************)
(* Concurrent specifications: NumProcs requests on one phone, interleaved  *)
(* at every await                                                          *)
(***************************************************************************)
\* a request arrives and its handler runs up to the first await
ConcCall(p, addresses) ==
    /\ UNCHANGED observer
    /\ \/ \E address \in addresses : create_record(p, Phone12, address)
       \/ \E address \in addresses : update_address(p, Phone12, address)
       \/ delete_record(p, Phone12)

\* the response is sent and the worker serves its next request
ConcReturn(p) ==
    /\ pc[p] = "done"
    /\ pc' = [pc EXCEPT ![p] = "idle"]
    /\ call' = [call EXCEPT ![p] = NoCall]
    /\ result' = [result EXCEPT ![p] = NoResult]
    /\ log' = [log EXCEPT ![p] = <<>>]
    /\ UNCHANGED <<store, now, record, existing_record, observer>>

\* every worker serves request after request, all with the same address
NextConc ==
    \/ \E p \in Procs : ConcCall(p, {AddressA})
    \/ \E p \in Procs : RepositoryStep(p)
    \/ \E p \in Procs : ConcReturn(p)
    \/ Tick

SpecConc == Init /\ [][NextConc]_vars

\* every worker serves one request, so that the state holds the whole history
NextOnce ==
    \/ \E p \in Procs : ConcCall(p, ConcAddresses)
    \/ \E p \in Procs : RepositoryStep(p)
    \/ Tick

SpecOnce == Init /\ [][NextOnce]_vars

(***************************************************************************)
(* HTTP specification: one client sends request after request through the  *)
(* middleware stack to the four CRUD endpoints (api/app.py); the store may *)
(* hold values the service did not write                                   *)
(***************************************************************************)
\* str(uuid.uuid4()): some identifier never seen in a request
Uuids == {"uuid-1", "uuid-2"}
\* the inbound X-Correlation-ID header: absent, present and empty, present
InboundHeaders == {None, Some(""), Some("client-1")}

HttpPhones == {Phone12, PhoneBad}
HttpAddresses == {AddressA, AddressBlank}

\* stored values nobody can read: a text that is not JSON, a JSON object whose
\* phone fails validation, a JSON object without address
NotJson == [text |-> <<"?">>]
InvalidPhoneJson == [phone |-> PhoneBad, address |-> AddressA,
                     created_at |-> isoformat(0), updated_at |-> isoformat(0)]
NoAddressJson == [phone |-> Phone12, created_at |-> isoformat(0), updated_at |-> isoformat(0)]
UnreadableValues == {NotJson, InvalidPhoneJson, NoAddressJson}

HttpStores == InitStores \cup {[k \in {make_key(Phone12)} |-> v] : v \in UnreadableValues}

InitHttp ==
    /\ store \in HttpStores
    /\ Quiet
    /\ validation = NoValidation

\* the class of the exception a service call ended with
exception_class(kind) ==
    IF kind \in {"validation", "duplicate", "corrupted"} THEN "ValueError"
    ELSE IF kind = "invalid_stored" THEN "ValidationError"
    ELSE IF kind = "unavailable" THEN "ConnectionError"
    ELSE IF kind = "fault" THEN "RuntimeError"
    ELSE "none"

\* isinstance(e, ValueError): pydantic's ValidationError derives from ValueError
is_ValueError(class) == class \in {"ValueError", "ValidationError"}

\* the service method an endpoint calls
service_method(method) ==
    IF method = "GET" THEN "get_address"
    ELSE IF method = "POST" THEN "create_record"
    ELSE IF method = "PUT" THEN "update_address"
    ELSE "delete_record"

\* the endpoints with ConnectionError left out of their except clauses
endpoint_status_no_503(method, r) ==
    IF is_ValueError(exception_class(r.kind))
    THEN IF method = "POST" /\ error_message(service_method(method), r.kind) = "Phone number already exists"
         THEN 409
         ELSE 400
    ELSE IF exception_class(r.kind) # "none" THEN 500
    ELSE IF r.kind \in {"absent", "false"} THEN 404
    ELSE IF method = "POST" THEN 201
    ELSE IF method = "DELETE" THEN 204
    ELSE 200

\* get_phone_address / create_phone_address / update_phone_address /
\* delete_phone_address: the status of the response for what the service call
\* returned or raised; an exception no except clause of the endpoint catches
\* reaches CorrelationIdMiddleware.dispatch, which answers 500
endpoint_status(method, r) ==
    IF is_ValueError(exception_class(r.kind))
    THEN IF method = "POST" /\ error_message(service_method(method), r.kind) = "Phone number already exists"
         THEN 409
         ELSE 400
    ELSE IF exception_class(r.kind) = "ConnectionError" THEN 503
    ELSE IF exception_class(r.kind) # "none" THEN 500
    ELSE IF r.kind \in {"absent", "false"} THEN 404
    ELSE IF method = "POST" THEN 201
    ELSE IF method = "DELETE" THEN 204
    ELSE 200

\* the context LoggingMiddleware.dispatch runs in. The middleware added last is
\* the outermost, so LoggingMiddleware is outside CorrelationIdMiddleware, and
\* call_next runs the inner application in a task of its own with a copy of
\* the context: what set_correlation_id() sets there is not seen outside,
\* where the variable keeps its default
request_context == None

\* CorrelationIdMiddleware.dispatch: the line logged before call_next
request_start ==
    <<log_line("middleware", "info", "request_start", None, correlation_id')>>

\* the lines logged once a response of `status_code` is there: request_complete
\* by CorrelationIdMiddleware.dispatch, or request_error in its except clause,
\* and then request_metrics by LoggingMiddleware.dispatch
request_end(status_code, context) ==
    <<log_line("middleware", IF status_code = 500 THEN "error" ELSE "info",
               IF status_code = 500 THEN "request_error" ELSE "request_complete",
               None, context),
      log_line("middleware", "info", "request_metrics", None, request_context)>>

\* no request is being served
NoRequestInFlight ==
    /\ pc[Caller] = "idle"
    /\ http_request.method = "none" \/ http_response # NoResponse

\* CORSMiddleware, the outermost middleware (added last), answers a preflight
\* request itself: the inner middlewares and the routes never see it
cors_preflight(header) ==
    /\ NoRequestInFlight
    /\ http_request' = [method |-> "OPTIONS", phone |-> <<>>, address |-> <<>>,
                        header |-> header, preflight |-> TRUE]
    /\ http_response' = [status_code |-> 200, header |-> None]
    /\ middleware_log' = <<>>
    /\ UNCHANGED <<store, now, pc, call, record, existing_record, result, prev, store_before,
                   correlation_id, validation, connection, log>>

\* CorrelationIdMiddleware.dispatch up to call_next: the identifier is the
\* inbound header unless that is missing or empty
received(method, phone, address, header) ==
    /\ NoRequestInFlight
    /\ http_request' = [method |-> method, phone |-> phone, address |-> address,
                        header |-> header, preflight |-> FALSE]
    /\ \E generated \in Uuids :
         correlation_id' = IF header = None \/ header[1] = "" THEN Some(generated) ELSE header
    /\ store_before' = store
    /\ UNCHANGED <<prev, validation, connection>>

\* the body of a POST or PUT passes the request model of the endpoint
body_valid(method, phone, address) ==
    IF method = "POST" THEN CreatePhoneAddressRequest(phone, address) # None
    ELSE IF method = "PUT" THEN UpdateAddressRequest(address) # None
    ELSE TRUE

\* the body does not pass: the framework answers 422 and the endpoint is not
\* called; the response goes back through CorrelationIdMiddleware.dispatch
request_validation_error(method, phone, address, header) ==
    /\ ~ body_valid(method, phone, address)
    /\ received(method, phone, address, header)
    /\ http_response' = [status_code |-> 422, header |-> correlation_id']
    /\ middleware_log' = request_start \o request_end(422, correlation_id')
    /\ UNCHANGED <<store, now, pc, call, record, existing_record, result, log>>

get_phone_address(phone_number, header) ==
    /\ received("GET", phone_number, <<>>, header)
    /\ get_address(Caller, phone_number)
    /\ http_response' = NoResponse
    /\ middleware_log' = request_start

create_phone_address(phone, address, header) ==
    /\ body_valid("POST", phone, address)
    /\ received("POST", phone, address, header)
    /\ create_record(Caller, phone, address)
    /\ http_response' = NoResponse
    /\ middleware_log' = request_start

update_phone_address(phone_number, address, header) ==
    /\ body_valid("PUT", phone_number, address)
    /\ received("PUT", phone_number, address, header)
    /\ update_address(Caller, phone_number, address)
    /\ http_response' = NoResponse
    /\ middleware_log' = request_start

delete_phone_address(phone_number, header) ==
    /\ received("DELETE", phone_number, <<>>, header)
    /\ delete_record(Caller, phone_number)
    /\ http_response' = NoResponse
    /\ middleware_log' = request_start

\* the endpoint returns or raises, and CorrelationIdMiddleware.dispatch puts
\* the identifier on the response (or on its own 500 response)
send_response ==
    /\ pc[Caller] = "done"
    /\ http_response' = [status_code |-> endpoint_status(http_request.method, result[Caller]),
                         header |-> correlation_id]
    /\ prev' = [call |-> call[Caller], result |-> result[Caller]]
    /\ pc' = [pc EXCEPT ![Caller] = "idle"]
    /\ call' = [call EXCEPT ![Caller] = NoCall]
    /\ result' = [result EXCEPT ![Caller] = NoResult]
    /\ correlation_id' = None
    /\ middleware_log' = middleware_log \o
           request_end(endpoint_status(http_request.method, result[Caller]), correlation_id)
    /\ log' = [log EXCEPT ![Caller] = <<>>]
    /\ UNCHANGED <<store, now, record, existing_record, store_before, http_request, validation,
                   connection>>

NextHttp ==
    \/ \E header \in InboundHeaders : cors_preflight(header)
    \/ \E method \in {"POST", "PUT"}, phone \in HttpPhones, address \in HttpAddresses,
          header \in InboundHeaders : request_validation_error(method, phone, address, header)
    \/ \E phone \in HttpPhones, header \in InboundHeaders : get_phone_address(phone, header)
    \/ \E phone \in HttpPhones, address \in HttpAddresses, header \in InboundHeaders :
          create_phone_address(phone, address, header)
    \/ \E phone \in HttpPhones, address \in HttpAddresses, header \in InboundHeaders :
          update_phone_address(phone, address, header)
    \/ \E phone \in HttpPhones, header \in InboundHeaders : delete_phone_address(phone, header)
    \/ RepositoryStep(Caller)
    \/ send_response

SpecHttp == InitHttp /\ [][NextHttp]_vars

\* the same, with the event loop resuming the coroutine whose await is over:
\* each store call ends within socket_connect_timeout / socket_timeout, with
\* an answer or with an exception
SpecLive == SpecHttp /\ WF_vars(RepositoryStep(Caller)) /\ WF_vars(send_response)

(***************************************************************************)
(* Connection manager specification: the lifespan of the application and   *)
(* NumProcs requests call the global RedisConnectionManager                *)
(* (repositories/connection.py); GET /health is one of the requests        *)
(***************************************************************************)
\* pools created at most
MaxPools == 3

\* what a PING can do: answer, answer something falsy, or raise
PingOutcomes == {"pong", "falsy", "RedisError"} \cup StoreFailures
\* what closing a client or a pool can do
AcloseOutcomes == {"ok", "raise"}

\* everything the manager does not touch
elsewhere == <<store, now, pc, call, record, existing_record, result, prev, store_before,
               http_request, correlation_id, http_response, validation, log, middleware_log>>

\* no lifespan is running, or the application is serving
Serving == task[Lifespan].op = "startup" /\ task[Lifespan].pc = "done"
AcceptsRequests == task[Lifespan] = NoTask \/ Serving
RequestsIdle == \A p \in Procs : task[p] = NoTask

open_pools == {i \in DOMAIN pools : pools[i] = "open"}

\* health_check(): the manager after the ping ended with `outcome`
after_ping(m, outcome) ==
    IF outcome \in {"pong", "falsy"} THEN m ELSE [m EXCEPT !.is_connected = FALSE]

\* health_check(): what it returns for the ping's outcome
ping_result(outcome) == outcome = "pong"

\* the /health endpoint answering an error status when the store is down
health_response_503(redis_connected) ==
    [status_code |-> IF redis_connected THEN 200 ELSE 503,
     status |-> IF redis_connected THEN "healthy" ELSE "degraded",
     redis_connected |-> redis_connected]

\* the /health endpoint: HealthCheckResponse(status, redis_connected), sent
\* with the default status code of the route
health_response(redis_connected) ==
    [status_code |-> 200,
     status |-> IF redis_connected THEN "healthy" ELSE "degraded",
     redis_connected |-> redis_connected]

\* initialize() up to its await: a new pool and a client on it take the place
\* of whatever the manager held, and health_check() sends the PING
initialize(t, op) ==
    /\ Len(pools) < MaxPools
    /\ pools' = Append(pools, "open")
    /\ manager' = [manager EXCEPT !.pool = Some(Len(pools) + 1), !.client = Some(Len(pools) + 1)]
    /\ task' = [task EXCEPT ![t] = [NoTask EXCEPT !.op = op, !.pc = "ping",
                                                  !.on = Some(Len(pools) + 1)]]

\* initialize() from the answer of the PING on: health_check() returns,
\* _is_connected = True, and get_client() returns self._client
initialize_ping(t) ==
    /\ task[t].pc = "ping"
    /\ task[t].op \in {"startup", "get_client"}
    /\ \E outcome \in PingOutcomes :
         /\ manager' = [after_ping(manager, outcome) EXCEPT !.is_connected = TRUE]
         /\ task' = [task EXCEPT ![t].pc = "done", ![t].ping = outcome, ![t].on = None,
                                 ![t].result = IF task[t].op = "get_client"
                                               THEN manager.client ELSE None]
    /\ UNCHANGED <<pools, elsewhere>>

\* lifespan(), startup: await redis_manager.initialize()
startup ==
    /\ task[Lifespan] = NoTask
    /\ RequestsIdle
    /\ initialize(Lifespan, "startup")
    /\ UNCHANGED elsewhere

\* get_client(): if not self._client or not self._is_connected: initialize()
get_client(p) ==
    /\ AcceptsRequests
    /\ task[p] = NoTask
    /\ IF manager.client = None \/ ~ manager.is_connected
       THEN initialize(p, "get_client")
       ELSE /\ task' = [task EXCEPT ![p] = [NoTask EXCEPT !.op = "get_client", !.pc = "done",
                                                          !.result = manager.client]]
            /\ UNCHANGED <<manager, pools>>
    /\ UNCHANGED elsewhere

\* GET /health up to the await of health_check(): without client the probe
\* returns False at once
health_check(p) ==
    /\ AcceptsRequests
    /\ task[p] = NoTask
    /\ task' = [task EXCEPT ![p] =
                  IF manager.client = None
                  THEN [NoTask EXCEPT !.op = "health_check", !.pc = "done",
                                      !.response = health_response(FALSE)]
                  ELSE [NoTask EXCEPT !.op = "health_check", !.pc = "ping",
                                      !.on = manager.client]]
    /\ UNCHANGED <<manager, pools, elsewhere>>

\* GET /health from the answer of the PING on
health_check_ping(p) ==
    /\ task[p].pc = "ping"
    /\ task[p].op = "health_check"
    /\ \E outcome \in PingOutcomes :
         /\ manager' = after_ping(manager, outcome)
         /\ task' = [task EXCEPT ![p].pc = "done", ![p].ping = outcome, ![p].on = None,
                                 ![p].response = health_response(ping_result(outcome))]
    /\ UNCHANGED <<pools, elsewhere>>

\* the response of the request is sent
request_done(p) ==
    /\ p \in Procs
    /\ task[p].pc = "done"
    /\ task' = [task EXCEPT ![p] = NoTask]
    /\ UNCHANGED <<manager, pools, elsewhere>>

\* lifespan(), shutdown: close() up to its first await
shutdown ==
    /\ Serving
    /\ RequestsIdle
    /\ IF manager.client # None
       THEN /\ task' = [task EXCEPT ![Lifespan] = [NoTask EXCEPT !.op = "shutdown",
                                       !.pc = "aclose_client", !.on = manager.client]]
            /\ UNCHANGED manager
       ELSE IF manager.pool # None
       THEN /\ task' = [task EXCEPT ![Lifespan] = [NoTask EXCEPT !.op = "shutdown",
                                       !.pc = "aclose_pool", !.on = manager.pool]]
            /\ UNCHANGED manager
       ELSE /\ task' = [task EXCEPT ![Lifespan] = [NoTask EXCEPT !.op = "shutdown", !.pc = "done"]]
            /\ manager' = [manager EXCEPT !.is_connected = FALSE]
    /\ UNCHANGED <<pools, elsewhere>>

\* close(): await self._client.aclose(); self._client = None; an exception
\* ends close() in its except clause, which logs it
close_client ==
    /\ task[Lifespan].pc = "aclose_client"
    /\ \E outcome \in AcloseOutcomes :
         IF outcome = "raise"
         THEN /\ task' = [task EXCEPT ![Lifespan].pc = "done", ![Lifespan].on = None]
              /\ UNCHANGED manager
         ELSE IF manager.pool # None
         THEN /\ task' = [task EXCEPT ![Lifespan].pc = "aclose_pool", ![Lifespan].on = manager.pool]
              /\ manager' = [manager EXCEPT !.client = None]
         ELSE /\ task' = [task EXCEPT ![Lifespan].pc = "done", ![Lifespan].on = None]
              /\ manager' = [manager EXCEPT !.client = None, !.is_connected = FALSE]
    /\ UNCHANGED <<pools, elsewhere>>

\* close(): await self._pool.aclose(); self._pool = None;
\* self._is_connected = False
close_pool ==
    /\ task[Lifespan].pc = "aclose_pool"
    /\ \E outcome \in AcloseOutcomes :
         IF outcome = "raise"
         THEN /\ task' = [task EXCEPT ![Lifespan].pc = "done", ![Lifespan].on = None]
              /\ UNCHANGED <<manager, pools>>
         ELSE /\ pools' = [pools EXCEPT ![task[Lifespan].on[1]] = "closed"]
              /\ manager' = [manager EXCEPT !.pool = None, !.is_connected = FALSE]
              /\ task' = [task EXCEPT ![Lifespan].pc = "done", ![Lifespan].on = None]
    /\ UNCHANGED elsewhere

\* lifespan() has ended; the process may run the application again
lifespan_exit ==
    /\ task[Lifespan].op = "shutdown"
    /\ task[Lifespan].pc = "done"
    /\ task' = [task EXCEPT ![Lifespan] = NoTask]
    /\ UNCHANGED <<manager, pools, elsewhere>>

NextManager ==
    \/ startup
    \/ \E t \in Tasks : initialize_ping(t)
    \/ \E p \in Procs : get_client(p)
    \/ \E p \in Procs : health_check(p)
    \/ \E p \in Procs : health_check_ping(p)
    \/ \E p \in Procs : request_done(p)
    \/ shutdown
    \/ close_client
    \/ close_pool
    \/ lifespan_exit

SpecManager == Init /\ [][NextManager]_vars

(***************************************************************************)
(* Validation specification: a raw field value goes through its validator  *)
(***************************************************************************)
\* longest run of digits tried
MaxDigits == 17

Repeat(c, n) == [i \in 1..n |-> c]

\* what surrounds the value: nothing, whitespace of several kinds and lengths
Pads == {<<>>, <<" ">>, <<"\n">>, <<"\t", " ">>, Repeat(" ", 3), Repeat(" ", 10)}

\* digit strings: a first character, then '2's, the last character possibly
\* replaced by something else
PhoneBodies ==
    {<<>>} \cup
    { <<first>> \o Repeat("2", n - 1) : first \in {"0", "1", "9", "a"}, n \in 1..MaxDigits } \cup
    { <<first>> \o Repeat("2", n - 2) \o <<last>> :
         first \in {"1", "9"}, n \in 2..MaxDigits, last \in {"0", "a", " ", "+", "-", ArabicIndicTwo} }

PhoneInputs ==
    { left \o plus \o body \o right :
        left \in Pads, plus \in {<<>>, <<"+">>, <<"+", "+">>}, body \in PhoneBodies, right \in Pads }

AddressBodies ==
    { Repeat("A", n) : n \in {0, 1, 2} \cup (AddressMaxLength - 21 .. AddressMaxLength + 1) } \cup
    { <<"A", " ", "B">> }

AddressInputs == { left \o body \o right : left \in Pads, body \in AddressBodies, right \in Pads }

Raw(field, v) == [field |-> field, v |-> v, state |-> "raw", value |-> <<>>]

InitValidation ==
    /\ store = <<>>
    /\ Quiet
    /\ validation \in {Raw("phone", v) : v \in PhoneInputs}
                        \cup {Raw("address", v) : v \in AddressInputs}

\* what the model is left with after a validator ran on the raw value
Validated(validated) ==
    /\ validation.state = "raw"
    /\ validation' = [validation EXCEPT
                          !.state = IF validated = None THEN "rejected" ELSE "accepted",
                          !.value = IF validated = None THEN <<>> ELSE validated[1]]
    /\ UNCHANGED <<store, now, pc, call, record, existing_record, result, prev, store_before,
                   http_request, correlation_id, http_response, connection, log, middleware_log>>

\* the phone field of PhoneAddressRecord / CreatePhoneAddressRequest
ValidatePhone ==
    /\ validation.field = "phone"
    /\ Validated(validate_phone_format(validation.v))

\* the address field of PhoneAddressRecord / the two request models
ValidateAddress ==
    /\ validation.field = "address"
    /\ Validated(validate_address(validation.v))

NextValidation ==
    \/ ValidatePhone
    \/ ValidateAddress

SpecValidation == InitValidation /\ [][NextValidation]_vars

(***************************************************************************)
(* Vocabulary of the properties                                            *)
(***************************************************************************)
\* the caller's call `op` has returned or raised
SeqDone(op) == pc[Caller] = "done" /\ call[Caller].op = op

\* the store answered every call it was sent: the call did not end in the
\* store-unavailable error nor in a refused write
Answered(r) == r.kind \notin {"unavailable", "fault"}

\* the record held under a key of store s
stored_record(s, key) == loads_record(s[key])[1]

\* every key but `key` holds in s what it holds in t
SameElsewhere(s, t, key) ==
    /\ DOMAIN s \ {key} = DOMAIN t \ {key}
    /\ \A k \in DOMAIN s \ {key} : s[k] = t[k]

(***************************************************************************)
(* C1: for every valid phone p and valid address a, when the store is      *)
(* available and p is not stored, create_record(p, a) succeeds, and an     *)
(* immediately following get_address(p) returns a record with the          *)
(* (normalised) phone p, the address a trimmed and the created_at and      *)
(* updated_at the create returned.                                         *)
(***************************************************************************)
C1_CreateThenGet ==
    /\ ( /\ SeqDone("create_record")
         /\ CreatePhoneAddressRequest(call[Caller].phone, call[Caller].address) # None
         /\ make_key(validate_phone_format(call[Caller].phone)[1]) \notin DOMAIN store_before
         /\ Answered(result[Caller]) )
       => result[Caller].kind = "record"
    /\ ( /\ SeqDone("get_address")
         /\ prev.call.op = "create_record"
         /\ prev.result.kind = "record"
         /\ call[Caller].phone = prev.call.phone
         /\ Answered(result[Caller]) )
       => /\ result[Caller].kind = "record"
          /\ result[Caller].value = prev.result.value
          /\ result[Caller].value[1].phone = validate_phone_format(call[Caller].phone)[1]
          /\ result[Caller].value[1].address = Strip(prev.call.address)

\* the same statement for the phones that carry no surrounding whitespace
CreateThenGetStripped ==
    ( /\ SeqDone("get_address")
      /\ prev.call.op = "create_record"
      /\ prev.result.kind = "record"
      /\ call[Caller].phone = prev.call.phone
      /\ Strip(call[Caller].phone) = call[Caller].phone
      /\ Answered(result[Caller]) )
    => /\ result[Caller].kind = "record"
       /\ result[Caller].value = prev.result.value
       /\ result[Caller].value[1].phone = call[Caller].phone
       /\ result[Caller].value[1].address = Strip(prev.call.address)

(***************************************************************************)
(* C2: when create is called twice in a row for the same phone with no     *)
(* delete in between, the second call fails with the duplicate error,      *)
(* whatever its address; more generally a create for a phone whose key is  *)
(* in the store fails with the duplicate error, and the key of a created   *)
(* record is in the store when the create returns.                         *)
(***************************************************************************)
C2_SecondCreateIsDuplicate ==
    /\ ( /\ SeqDone("create_record")
         /\ CreatePhoneAddressRequest(call[Caller].phone, call[Caller].address) # None
         /\ prev.call.op = "create_record"
         /\ prev.result.kind = "record"
         /\ validate_phone_format(call[Caller].phone) = validate_phone_format(prev.call.phone)
         /\ Answered(result[Caller]) )
       => result[Caller].kind = "duplicate"
    /\ ( /\ SeqDone("create_record")
         /\ CreatePhoneAddressRequest(call[Caller].phone, call[Caller].address) # None
         /\ make_key(validate_phone_format(call[Caller].phone)[1]) \in DOMAIN store_before
         /\ Answered(result[Caller]) )
       => result[Caller].kind = "duplicate"
    /\ ( SeqDone("create_record") /\ result[Caller].kind = "record" )
       => make_key(result[Caller].value[1].phone) \in DOMAIN store

C2_Witness ==
    /\ SeqDone("create_record")
    /\ prev.call.op = "create_record"
    /\ prev.result.kind = "record"
    /\ validate_phone_format(call[Caller].phone) = validate_phone_format(prev.call.phone)
    /\ Strip(call[Caller].address) # Strip(prev.call.address)
    /\ result[Caller].kind = "duplicate"

(***************************************************************************)
(* C4: for a stored phone p and a valid address a2, an update(p, a2) with  *)
(* nothing else running returns and stores a record with the phone and the *)
(* created_at of the record it found, the address a2 trimmed and an        *)
(* updated_at not before the one it found.                                 *)
(***************************************************************************)
C4_UpdateKeepsIdentity ==
    ( /\ SeqDone("update_address")
      /\ UpdateAddressRequest(call[Caller].address) # None
      /\ make_key(call[Caller].phone) \in DOMAIN store_before
      /\ Answered(result[Caller]) )
    => LET key == make_key(call[Caller].phone)
           old == stored_record(store_before, key)
       IN  /\ result[Caller].kind = "record"
           /\ result[Caller].value[1].phone = old.phone
           /\ result[Caller].value[1].phone = call[Caller].phone
           /\ result[Caller].value[1].created_at = old.created_at
           /\ result[Caller].value[1].address = Strip(call[Caller].address)
           /\ result[Caller].value[1].updated_at >= old.updated_at
           /\ key \in DOMAIN store
           /\ stored_record(store, key) = result[Caller].value[1]
           /\ SameElsewhere(store, store_before, key)

C4_Witness ==
    /\ SeqDone("update_address")
    /\ make_key(call[Caller].phone) \in DOMAIN store_before
    /\ result[Caller].kind = "record"
    /\ result[Caller].value[1].address # stored_record(store_before, make_key(call[Caller].phone)).address
    /\ result[Caller].value[1].updated_at > stored_record(store_before, make_key(call[Caller].phone)).updated_at
    /\ Strip(call[Caller].address) # call[Caller].address

(***************************************************************************)
(* C6: delete(p) on a stored phone returns true and removes the key, so    *)
(* that a following get(p) returns absent and exists(p) false; delete(p)   *)
(* on a phone that is not stored returns false, raises nothing and leaves  *)
(* the store as it was.                                                    *)
(***************************************************************************)
C6_Delete ==
    /\ ( /\ SeqDone("delete_record")
         /\ result[Caller].kind \notin {"validation", "unavailable"} )
       => LET key == make_key(call[Caller].phone)
          IN  IF key \in DOMAIN store_before
              THEN /\ result[Caller].kind = "true"
                   /\ key \notin DOMAIN store
                   /\ SameElsewhere(store, store_before, key)
              ELSE /\ result[Caller].kind = "false"
                   /\ store = store_before
    /\ ( /\ pc[Caller] = "done"
         /\ call[Caller].op \in {"get_address", "exists"}
         /\ prev.call.op = "delete_record"
         /\ prev.result.kind = "true"
         /\ call[Caller].phone = prev.call.phone
         /\ Answered(result[Caller]) )
       => result[Caller].kind = (IF call[Caller].op = "exists" THEN "false" ELSE "absent")

C6_Witness ==
    /\ SeqDone("get_address")
    /\ prev.call.op = "delete_record"
    /\ prev.result.kind = "true"
    /\ call[Caller].phone = prev.call.phone
    /\ result[Caller].kind = "absent"
    /\ store # <<>>

(***************************************************************************)
(* C7: update(p, a) on a phone that is not stored returns absent without   *)
(* an error and writes nothing: no key for p afterwards, every other key   *)
(* as before.                                                              *)
(***************************************************************************)
C7_UpdateAbsent ==
    ( /\ call[Caller].op = "update_address"
      /\ make_key(call[Caller].phone) \notin DOMAIN store_before )
    => /\ store = store_before
       /\ ( /\ pc[Caller] = "done"
            /\ result[Caller].kind \notin {"validation", "unavailable"} )
          => result[Caller].kind = "absent"

C7_Witness ==
    /\ SeqDone("update_address")
    /\ make_key(call[Caller].phone) \notin DOMAIN store_before
    /\ result[Caller].kind = "absent"
    /\ store # <<>>

(***************************************************************************)
(* Properties of concurrent requests on the phone Phone12                  *)
(***************************************************************************)
Key12 == make_key(Phone12)

(***************************************************************************)
(* C3: when only creates for one phone that is not stored run, in any      *)
(* interleaving, at most one of them returns a record, every other one     *)
(* fails with the duplicate error, and the stored record is the one the    *)
(* successful create wrote.                                                *)
(***************************************************************************)
C3_AtMostOneCreate ==
    ( /\ store_before = <<>>
      /\ \A p \in Procs : call[p].op \in {"none", "create_record"}
      /\ \A p \in Procs : Answered(result[p]) )
    => /\ Cardinality({p \in Procs : result[p].kind = "record"}) <= 1
       /\ \A p \in Procs : pc[p] = "done" => result[p].kind \in {"record", "duplicate"}
       /\ \A p \in Procs : result[p].kind = "record" =>
              /\ Key12 \in DOMAIN store
              /\ stored_record(store, Key12) = result[p].value[1]

(***************************************************************************)
(* C5: when only updates of one stored phone run, in any interleaving,     *)
(* every update returns a record with the phone and created_at of the      *)
(* original record and its own address, and the stored record is the       *)
(* original or, whole, the record one of the updates returned: never a mix *)
(* of the fields of two updates.                                           *)
(***************************************************************************)
C5_ConcurrentUpdates ==
    ( /\ Key12 \in DOMAIN store_before
      /\ \A p \in Procs : call[p].op \in {"none", "update_address"} )
    => LET original == stored_record(store_before, Key12)
       IN  /\ \A p \in Procs :
                 (pc[p] = "done" /\ Answered(result[p]))
                 => /\ result[p].kind = "record"
                    /\ result[p].value[1].phone = original.phone
                    /\ result[p].value[1].created_at = original.created_at
                    /\ result[p].value[1].address = Strip(call[p].address)
           /\ (\A p \in Procs : Answered(result[p]))
              => /\ Key12 \in DOMAIN store
                 /\ \/ stored_record(store, Key12) = original
                    \/ \E p \in Procs :
                         /\ result[p].kind = "record"
                         /\ stored_record(store, Key12) = result[p].value[1]

C5_Witness ==
    /\ Key12 \in DOMAIN store_before
    /\ \A p \in Procs : call[p].op \in {"none", "update_address"}
    /\ \E p, q \in Procs :
         /\ result[p].kind = "record"
         /\ result[q].kind = "record"
         /\ result[p].value[1].address # result[q].value[1].address
         /\ result[p].value[1].updated_at < result[q].value[1].updated_at
         /\ stored_record(store, Key12) = result[p].value[1]

(***************************************************************************)
(* C8: a key becomes present in the store only through the write of a      *)
(* create; an update in flight never brings a deleted record back.         *)
(***************************************************************************)
C8_OnlyCreateAddsKey ==
    [][ \A k \in DOMAIN store' \ DOMAIN store :
            \E p \in Procs :
                /\ call[p].op = "create_record"
                /\ pc[p] = "redis_set"
                /\ pc'[p] = "done" ]_vars

(***************************************************************************)
(* C9: the created_at of the stored record does not change from the write  *)
(* of the create to the delete that removes the key.                       *)
(***************************************************************************)
C9_CreatedAtImmutable ==
    [][ \A k \in DOMAIN store \cap DOMAIN store' :
            stored_record(store', k).created_at = stored_record(store, k).created_at ]_vars

(***************************************************************************)
(* C10: with a clock that never goes backwards, every record in the store  *)
(* has updated_at >= created_at, in every reachable state of any           *)
(* interleaving of create_record, update_address and delete_record.        *)
(***************************************************************************)
C10_UpdatedNotBeforeCreated ==
    \A k \in DOMAIN store :
        stored_record(store, k).updated_at >= stored_record(store, k).created_at

C10_Witness ==
    /\ Key12 \in DOMAIN store
    /\ stored_record(store, Key12).created_at > 0
    /\ stored_record(store, Key12).updated_at >= stored_record(store, Key12).created_at
    /\ \E p \in Procs : call[p].op = "update_address" /\ pc[p] = "done" /\ result[p].kind = "record"
    /\ \E p \in Procs : pc[p] = "redis_set"

(***************************************************************************)
(* C11: get_address, update_address and delete_record called with a phone  *)
(* that fails phone validation end in the validation error without a       *)
(* single step of the repository: from the moment the call is made it is   *)
(* finished, and the store is the one the call started from.               *)
(***************************************************************************)
C11_InvalidPhoneNoStoreAccess ==
    ( /\ call[Caller].op \in {"get_address", "update_address", "delete_record"}
      /\ validate_phone_format(call[Caller].phone) = None )
    => /\ pc[Caller] = "done"
       /\ result[Caller].kind = "validation"
       /\ result[Caller].cause = "none"
       /\ store = store_before

C11_Witness ==
    /\ SeqDone("delete_record")
    /\ call[Caller].phone = PhoneBad
    /\ result[Caller].kind = "validation"
    /\ Key12 \in DOMAIN store

\* the validator of `field` has run on a raw value
ValidationDone(field) == validation.field = field /\ validation.state # "raw"

\* s is an optional single '+', a digit from 1 to 9, and 1 to 14 more digits
IsE164(s) ==
    \E plus \in {0, 1} :
        /\ Len(s) - plus \in 2..15
        /\ plus = 1 => s[1] = "+"
        /\ s[plus + 1] \in {"1", "2", "3", "4", "5", "6", "7", "8", "9"}
        /\ \A i \in (plus + 2)..Len(s) : s[i] \in Digits

C13_AddressAcceptedIffNonBlankWithin500 ==
    ValidationDone("address") =>
        /\ validation.state = "accepted"
              <=> (Len(validation.v) <= 500 /\ Strip(validation.v) # <<>>)
        /\ validation.state = "accepted" => validation.value = Strip(validation.v)
        /\ (\A i \in 1..Len(validation.v) : validation.v[i] \in Whitespace)
              => validation.state = "rejected"
        /\ validation.v = [i \in 1..501 |-> "A"] => validation.state = "rejected"
        /\ validation.v = [i \in 1..500 |-> "A"] => validation.state = "accepted"

C13_Witness ==
    /\ ValidationDone("address")
    /\ validation.state = "accepted"
    /\ Len(validation.v) = 500
    /\ validation.value # validation.v

(***************************************************************************)
(* C14: in get, create, update, delete and exists, when a store call of    *)
(* the operation (obtaining the client included) fails with a connection   *)
(* or timeout error, the operation fails with the store-unavailable error  *)
(* 'Redis service unavailable'; it does not end as absent, false,          *)
(* duplicate or success.                                                   *)
(***************************************************************************)
C14_StoreFailureIsUnavailable ==
    ( /\ pc[Caller] = "done"
      /\ call[Caller].op \in {"get_address", "create_record", "update_address",
                               "delete_record", "exists"}
      /\ result[Caller].cause \in {"ConnectionError", "TimeoutError"} )
    => /\ result[Caller].kind = "unavailable"
       /\ result[Caller].value = None
       /\ error_message(call[Caller].op, result[Caller].kind) = "Redis service unavailable"

C14_Witness ==
    /\ SeqDone("exists")
    /\ result[Caller].cause = "ConnectionError"
    /\ result[Caller].kind = "unavailable"
    /\ make_key(call[Caller].phone) \in DOMAIN store

(***************************************************************************)
(* C15: when the store refuses the write of a create or an update (an      *)
(* unsuccessful acknowledgment), the operation fails with the store-fault  *)
(* error 'Failed to store record' / 'Failed to update record', which is    *)
(* neither the store-unavailable nor the duplicate error, and returns no   *)
(* record.                                                                 *)
(***************************************************************************)
C15_RefusedWriteIsFault ==
    ( /\ pc[Caller] = "done"
      /\ result[Caller].cause = "nack" )
    => /\ call[Caller].op \in {"create_record", "update_address"}
       /\ result[Caller].kind = "fault"
       /\ result[Caller].kind \notin {"unavailable", "duplicate", "record"}
       /\ result[Caller].value = None
       /\ error_message(call[Caller].op, result[Caller].kind)
             = IF call[Caller].op = "create_record" THEN "Failed to store record"
               ELSE "Failed to update record"
       /\ error_message(call[Caller].op, result[Caller].kind)
             \notin {error_message(call[Caller].op, "unavailable"),
                     error_message(call[Caller].op, "duplicate")}

C15_Witness ==
    /\ SeqDone("update_address")
    /\ result[Caller].cause = "nack"
    /\ result[Caller].kind = "fault"
    /\ store = store_before

(***************************************************************************)
(* C19: an operation that failed with the store-unavailable error can be   *)
(* retried with the outcome of a first attempt, because it has left the    *)
(* store as it found it: in particular a create that failed so has not     *)
(* written its record (and its retry cannot meet it as a duplicate).       *)
(***************************************************************************)
C19_UnavailableIsRetriable ==
    ( /\ pc[Caller] = "done"
      /\ result[Caller].kind = "unavailable" )
    => store = store_before

\* the stored text cannot be made into a record
Unreadable(data) ==
    \/ json_loads(data) = None
    \/ loads_record(json_loads(data)[1]) = None

\* the request whose response was sent last
Responded(methods) ==
    /\ http_response # NoResponse
    /\ ~ http_request.preflight
    /\ http_request.method \in methods
    /\ body_valid(http_request.method, http_request.phone, http_request.address)

(***************************************************************************)
(* C16: repository get fails with the one corrupt-data error 'Corrupted    *)
(* data in storage' for every stored value that cannot be made into a      *)
(* record, be it not JSON at all or JSON that fails record validation.     *)
(***************************************************************************)
C16_UnreadableIsCorruptData ==
    ( /\ SeqDone("get_address")
      /\ validate_phone_format(call[Caller].phone) # None
      /\ make_key(call[Caller].phone) \in DOMAIN store_before
      /\ Unreadable(store_before[make_key(call[Caller].phone)])
      /\ result[Caller].cause \notin {"ConnectionError", "TimeoutError"} )
    => /\ result[Caller].kind = "corrupted"
       /\ error_message("get_address", result[Caller].kind) = "Corrupted data in storage"

(***************************************************************************)
(* C17: a GET or PUT request for a validly formatted phone whose stored    *)
(* value is unreadable is answered with status 500, not with 400 or 404.   *)
(***************************************************************************)
C17_UnreadableIs500 ==
    ( /\ Responded({"GET", "PUT"})
      /\ validate_phone_format(http_request.phone) # None
      /\ make_key(http_request.phone) \in DOMAIN store_before
      /\ Unreadable(store_before[make_key(http_request.phone)])
      /\ prev.result.cause \notin {"ConnectionError", "TimeoutError"} )
    => http_response.status_code = 500

(***************************************************************************)
(* C18: each request outcome maps to one HTTP status: GET, PUT and DELETE  *)
(* on a validly formatted phone that is not stored give 404; POST for a    *)
(* phone already stored gives 409; a store-unavailable error gives 503 on  *)
(* all four endpoints; an invalid phone in the path gives 400; success     *)
(* gives 200 for GET and PUT, 201 for POST and 204 for DELETE.             *)
(***************************************************************************)
C18_StatusMapping ==
    Responded({"GET", "POST", "PUT", "DELETE"}) =>
        LET method == http_request.method
            valid == validate_phone_format(http_request.phone) # None
            stored == make_key(Strip(http_request.phone)) \in DOMAIN store_before
            answered == prev.result.cause = "none"
            status_code == http_response.status_code
        IN  /\ (method # "POST" /\ valid /\ ~ stored /\ answered) => status_code = 404
            /\ (method = "POST" /\ stored /\ answered) => status_code = 409
            /\ prev.result.cause \in {"ConnectionError", "TimeoutError"} => status_code = 503
            /\ (method # "POST" /\ ~ valid) => status_code = 400
            /\ prev.result.kind = "record"
                  => status_code = IF method = "POST" THEN 201 ELSE 200
            /\ (method = "POST" /\ ~ stored /\ answered) => status_code = 201
            /\ (method = "DELETE" /\ valid /\ stored /\ answered) => status_code = 204
            /\ status_code = 204 => method = "DELETE" /\ prev.result.kind = "true"

C18_Witness ==
    /\ Responded({"POST"})
    /\ prev.result.cause = "TimeoutError"
    /\ http_response.status_code = 503
    /\ store # store_before

(***************************************************************************)
(* C20: every response carries the X-Correlation-ID header; its value is   *)
(* the inbound X-Correlation-ID header when the request had one and a      *)
(* generated identifier otherwise, on success responses, on HTTP error     *)
(* responses and on the 500 response sent when the handler raises.         *)
(***************************************************************************)
C20_ResponseCarriesCorrelationId ==
    http_response # NoResponse =>
        /\ http_response.header # None
        /\ http_request.header # None => http_response.header = http_request.header
        /\ http_request.header = None => http_response.header[1] \in Uuids

(***************************************************************************)
(* C29: a create that fails with the duplicate error leaves the store      *)
(* unchanged: the record stored for the phone keeps its address,           *)
(* created_at and updated_at, and no other key is touched.                 *)
(***************************************************************************)
C29_DuplicateLeavesStore ==
    ( /\ SeqDone("create_record")
      /\ result[Caller].kind = "duplicate" )
    => /\ store = store_before
       /\ LET key == make_key(validate_phone_format(call[Caller].phone)[1])
          IN  /\ key \in DOMAIN store
              /\ stored_record(store, key) = stored_record(store_before, key)
              /\ SameElsewhere(store, store_before, key)

C29_Witness ==
    /\ SeqDone("create_record")
    /\ result[Caller].kind = "duplicate"
    /\ call[Caller].phone = Phone12Padded
    /\ Strip(call[Caller].address) # stored_record(store, Key12).address
    /\ stored_record(store, Key12).updated_at < now

(***************************************************************************)
(* C30: while a phone's key stays in the store its stored updated_at never *)
(* decreases: with a clock that never goes backwards and only update calls *)
(* running on the phone, in any interleaving, every write stores an        *)
(* updated_at greater than or equal to the one it replaces.                *)
(***************************************************************************)
C30_UpdatedAtNeverDecreases ==
    [][ ( /\ \A p \in Procs : call'[p].op \in {"none", "update_address"}
          /\ Key12 \in DOMAIN store
          /\ Key12 \in DOMAIN store' )
        => stored_record(store', Key12).updated_at >= stored_record(store, Key12).updated_at ]_vars

(***************************************************************************)
(* C25: every service operation that has started eventually returns a      *)
(* result or raises an error, whatever the store does, and a store call    *)
(* that is not answered in time ends as the store-unavailable error.       *)
(***************************************************************************)
C25_EveryCallEnds ==
    /\ (pc[Caller] # "idle") ~> (pc[Caller] = "done")
    /\ (call[Caller].op # "none") ~> (call[Caller].op = "none" /\ http_response # NoResponse)
    /\ [](result[Caller].cause = "TimeoutError" => result[Caller].kind = "unavailable")

C25_Witness ==
    /\ pc[Caller] = "done"
    /\ call[Caller].op = "update_address"
    /\ result[Caller].cause = "TimeoutError"
    /\ result[Caller].kind = "unavailable"

(***************************************************************************)
(* C23: the health probe changes no state: whether the ping succeeds,      *)
(* answers false or raises, every step of health_check leaves the store's  *)
(* records and the manager's client, pool and connected flag as they were. *)
(***************************************************************************)
C23_HealthCheckChangesNothing ==
    [][ \A p \in Procs :
          ( task'[p].op = "health_check" /\ task'[p] # task[p] )
          => /\ store' = store
             /\ manager' = manager
             /\ pools' = pools ]_vars

(***************************************************************************)
(* C24: between startup and shutdown the pool is initialized at most once: *)
(* whatever startup, get_client calls and health probes (failing ones      *)
(* included) do, no second pool is created while one exists, so at most    *)
(* one pool is ever open.                                                  *)
(***************************************************************************)
C24_AtMostOnePool == Cardinality(open_pools) <= 1

(***************************************************************************)
(* C26: GET /health always answers 200: 'healthy' with redis_connected     *)
(* true exactly when the ping was sent and answered, 'degraded' with       *)
(* redis_connected false otherwise, and never an error status.             *)
(***************************************************************************)
C26_HealthAlways200 ==
    \A p \in Procs :
       ( task[p].op = "health_check" /\ task[p].pc = "done" )
       => /\ task[p].response.status_code = 200
          /\ IF task[p].ping = "pong"
             THEN task[p].response.status = "healthy" /\ task[p].response.redis_connected
             ELSE task[p].response.status = "degraded" /\ ~ task[p].response.redis_connected

\* one probe found the store down and another, later, found it up
C26_Witness ==
    /\ task[1].op = "health_check" /\ task[1].pc = "done"
    /\ task[1].ping \in StoreFailures /\ task[1].response.status = "degraded"
    /\ task[2].op = "health_check" /\ task[2].pc = "done"
    /\ task[2].ping = "pong" /\ task[2].response.status = "healthy"

(***************************************************************************)
(* C27: after close() returns the manager holds no client and no pool and  *)
(* is_connected is false, from every state close() was called in.          *)
(***************************************************************************)
C27_ClosedManagerIsEmpty ==
    ( task[Lifespan].op = "shutdown" /\ task[Lifespan].pc = "done" )
    => manager = NewManager

(***************************************************************************)
(* C28: after initialize() returns normally is_connected is true exactly   *)
(* when its ping succeeded: it is false when the store could not be        *)
(* reached, so that get_client does not hand out a client of a manager it  *)
(* treats as connected.                                                    *)
(***************************************************************************)
C28_ConnectedIffPingSucceeded ==
    [][ \A t \in Tasks :
          ( /\ task[t].pc = "ping" /\ task[t].op \in {"startup", "get_client"}
            /\ task'[t].pc = "done" )
          => ( manager'.is_connected <=> task'[t].ping = "pong" ) ]_vars

(***************************************************************************)
(* C21: every log line emitted while a request is handled carries the      *)
(* correlation identifier of that request (the one echoed in the response  *)
(* header): the lines of the middlewares, request_metrics included, of the *)
(* service and of the repository; none carries another identifier or the   *)
(* placeholder 'N/A'.                                                      *)
(***************************************************************************)
C21_LogLinesCarryCorrelationId ==
    LET id == IF correlation_id # None THEN correlation_id ELSE http_response.header
        lines == log[Caller] \o middleware_log
    IN  id # None => \A i \in DOMAIN lines : lines[i].correlation_id = id[1]

====
